---- MODULE Spec2Model ----
(***************************************************************************)
(* Crypto.Util.py3compat: the text/bytes compatibility helpers b, bchr,    *)
(* bord, tobytes, tostr, byte_string, _copy_bytes, _is_immutable and       *)
(* _is_mutable, over a heap of Python objects.                             *)
(*                                                                         *)
(* A Python value is a record tagged by `kind`:                            *)
(*   int        [kind, val]            an integer                          *)
(*   str        [kind, cps]            text, a sequence of code points     *)
(*                                     (str in Python 3, unicode in 2)     *)
(*   bytes      [kind, ref]            immutable byte string, heap[ref]    *)
(*                                     (bytes in Python 3, str in 2)       *)
(*   bytearray  [kind, ref]            mutable byte buffer, heap[ref]      *)
(*   memoryview [kind, ref, off, len, ro]  view of len bytes of heap[ref]  *)
(*                                     starting at offset off              *)
(*   list       [kind, items]          a list of values                    *)
(*   bool       [kind, truth]                                              *)
(*   None       [kind]                                                     *)
(* heap is the sequence of byte storages [mut, data] allocated so far.     *)
(* A call yields an outcome [exc, val, heap]: the exception raised (or     *)
(* "none"), the value returned and the heap after the call.                *)
(***************************************************************************)
EXTENDS Integers, Sequences, FiniteSets, TLC

VARIABLES version, heap, arg, start, end, op, ret, w

vars == <<version, heap, arg, start, end, op, ret, w>>

\* Longest byte buffer and longest list drawn as an input; a bytearray source
\* is appended to up to this length.
MaxLen == 3

\* Longest text drawn as an input.
MaxTextLen == 2

----------------------------------------------------------------------------
\* Values

PyNone == [kind |-> "None"]

PyInt(n) == [kind |-> "int", val |-> n]

PyStr(cps) == [kind |-> "str", cps |-> cps]

PyBool(x) == [kind |-> "bool", truth |-> x]

PyList(items) == [kind |-> "list", items |-> items]

Buf(k, r) == [kind |-> k, ref |-> r]

MemoryView(r, o, n, ro) ==
    [kind |-> "memoryview", ref |-> r, off |-> o, len |-> n, ro |-> ro]

IsBuffer(v) == v.kind \in {"bytes", "bytearray", "memoryview"}

\* The bytes a buffer value holds in heap h.
Content(v, h) ==
    IF v.kind = "memoryview"
    THEN SubSeq(h[v.ref].data, v.off + 1, v.off + v.len)
    ELSE h[v.ref].data

----------------------------------------------------------------------------
\* Outcomes

Return(v, h) == [exc |-> "none", val |-> v, heap |-> h]

Raise(e, h) == [exc |-> e, val |-> PyNone, heap |-> h]

\* A fresh immutable byte string holding data.
NewBytes(data, h) ==
    Return(Buf("bytes", Len(h) + 1), Append(h, [mut |-> FALSE, data |-> data]))

\* A fresh bytearray holding data.
NewByteArray(data, h) ==
    Return(Buf("bytearray", Len(h) + 1), Append(h, [mut |-> TRUE, data |-> data]))

----------------------------------------------------------------------------
\* Built-in behaviour of the Python objects the helpers call into

\* bytes([s]) and bytes(list): every item must be an integer in range(256);
\* the first offending item decides between TypeError and ValueError.
BytesFromList(items, h) ==
    LET bad == {i \in 1..Len(items) :
                    \/ items[i].kind # "int"
                    \/ items[i].val < 0
                    \/ items[i].val > 255}
    IN  IF bad = {}
        THEN NewBytes([i \in 1..Len(items) |-> items[i].val], h)
        ELSE LET j == CHOOSE i \in bad : \A k \in bad : i <= k
             IN  IF items[j].kind # "int"
                 THEN Raise("TypeError", h)
                 ELSE Raise("ValueError", h)

\* The UTF-8 bytes of code point cp (below 65536).
Utf8Char(cp) ==
    IF cp < 128
    THEN <<cp>>
    ELSE IF cp < 2048
         THEN <<192 + (cp \div 64), 128 + (cp % 64)>>
         ELSE <<224 + (cp \div 4096), 128 + ((cp \div 64) % 64), 128 + (cp % 64)>>

RECURSIVE Utf8(_, _)
Utf8(cps, i) == IF i > Len(cps) THEN <<>> ELSE Utf8Char(cps[i]) \o Utf8(cps, i + 1)

\* Mutant of encode_latin1: s.encode("utf-8"), which encodes every code point
\* and takes two or three bytes for those above 127.
encode_utf8(s, h) ==
    IF s.kind # "str"
    THEN Raise("AttributeError", h)
    ELSE NewBytes(Utf8(s.cps, 1), h)

\* s.encode("latin-1"): code point N becomes byte N; a code point above 255
\* cannot be encoded. Only text has the method in Python 3.
encode_latin1(s, h) ==
    IF s.kind # "str"
    THEN Raise("AttributeError", h)
    ELSE IF \E i \in 1..Len(s.cps) : s.cps[i] > 255
         THEN Raise("UnicodeEncodeError", h)
         ELSE NewBytes([i \in 1..Len(s.cps) |-> s.cps[i]], h)

\* bs.decode("latin-1"): byte N becomes code point N. bytes and bytearray have
\* the method; a memoryview, text, an integer or a list does not.
decode_latin1(bs, h) ==
    IF bs.kind \in {"bytes", "bytearray"}
    THEN Return(PyStr([i \in 1..Len(Content(bs, h)) |-> Content(bs, h)[i]]), h)
    ELSE Raise("AttributeError", h)

\* Mutant of AdjustIndex: a negative bound is clamped to 0 instead of being
\* counted from the end.
AdjustIndex_noWrap(i, n) ==
    IF i < 0 THEN 0 ELSE (IF i > n THEN n ELSE i)

\* A slice bound i resolved against length n: a negative bound counts from
\* the end, and the result is clamped to 0..n.
AdjustIndex(i, n) ==
    IF i < 0
    THEN (IF i + n < 0 THEN 0 ELSE i + n)
    ELSE (IF i > n THEN n ELSE i)

\* seq[lo:hi]. A memoryview gives a view of the same storage, a bytearray a
\* fresh bytearray, bytes a fresh byte string (the object itself when the
\* slice covers all of it), text and lists a fresh value of their kind.
getslice(seq, lo, hi, h) ==
    IF seq.kind \in {"int", "bool", "None"}
    THEN Raise("TypeError", h)
    ELSE
    LET n == IF IsBuffer(seq) THEN Len(Content(seq, h))
             ELSE IF seq.kind = "str" THEN Len(seq.cps)
             ELSE Len(seq.items)
        s == AdjustIndex(lo, n)
        e == AdjustIndex(hi, n)
        k == IF e > s THEN e - s ELSE 0
        cut(data) == [i \in 1..k |-> data[s + i]]
    IN  CASE seq.kind = "memoryview" ->
                Return(MemoryView(seq.ref, seq.off + s, k, seq.ro), h)
          [] seq.kind = "bytearray" -> NewByteArray(cut(Content(seq, h)), h)
          [] seq.kind = "bytes" ->
                IF s = 0 /\ k = n
                THEN Return(seq, h)
                ELSE NewBytes(cut(Content(seq, h)), h)
          [] seq.kind = "str" -> Return(PyStr(cut(seq.cps)), h)
          [] OTHER -> Return(PyList(cut(seq.items)), h)

\* seq[i] on a byte string, 0 <= i < len(seq): an integer in Python 3, a
\* one-character byte string in Python 2.
getitem(seq, i, h, ver) ==
    IF ver = 2
    THEN NewBytes(<<Content(seq, h)[i + 1]>>, h)
    ELSE Return(PyInt(Content(seq, h)[i + 1]), h)

\* Mutant of bytes_of: the slice is returned as it is, without the copy into
\* a byte string.
bytes_of_nocopy(data, h) == Return(data, h)

\* data.tobytes() of a memoryview and bytes(data) of a bytearray: a fresh
\* byte string with the bytes the buffer holds.
bytes_of(data, h) == NewBytes(Content(data, h), h)

\* The byte strings of items[i..] concatenated.
RECURSIVE Concat(_, _, _)
Concat(items, i, h) ==
    IF i > Len(items) THEN <<>> ELSE Content(items[i], h) \o Concat(items, i + 1, h)

\* ''.join(s) in Python 2: s is iterated and its items, which must all be
\* byte strings, are concatenated. A byte string and a memoryview iterate as
\* one-character byte strings, a bytearray as integers.
join(s, h) ==
    CASE s.kind \in {"bytes", "memoryview"} -> NewBytes(Content(s, h), h)
      [] s.kind = "bytearray" ->
            IF Content(s, h) = <<>> THEN NewBytes(<<>>, h) ELSE Raise("TypeError", h)
      [] s.kind = "list" ->
            IF \A i \in 1..Len(s.items) : s.items[i].kind = "bytes"
            THEN NewBytes(Concat(s.items, 1, h), h)
            ELSE Raise("TypeError", h)
      [] OTHER -> Raise("TypeError", h)

----------------------------------------------------------------------------
\* The Python 2 branch of the module

b_py2(s, h) == Return(s, h)

\* chr(s)
bchr_py2(s, h) ==
    IF s.kind # "int"
    THEN Raise("TypeError", h)
    ELSE IF s.val < 0 \/ s.val > 255
         THEN Raise("ValueError", h)
         ELSE NewBytes(<<s.val>>, h)

\* ord(s): s must be a byte string, bytearray or text of length one.
bord_py2(s, h) ==
    CASE s.kind \in {"bytes", "bytearray"} /\ Len(Content(s, h)) = 1 ->
            Return(PyInt(Content(s, h)[1]), h)
      [] s.kind = "str" /\ Len(s.cps) = 1 -> Return(PyInt(s.cps[1]), h)
      [] OTHER -> Raise("TypeError", h)

tobytes_py2(s, h) ==
    IF s.kind = "str"
    THEN encode_latin1(s, h)
    ELSE join(s, h)

tostr_py2(bs, h) == Return(bs, h)

byte_string_py2(s) == s.kind = "bytes"

----------------------------------------------------------------------------
\* The Python 3 branch of the module

b_py3(s, h) == encode_latin1(s, h)

\* Mutant of bchr_py3: bytes([s & 0xFF]), the integer masked to one byte.
bchr_py3_masked(s, h) ==
    IF s.kind = "int"
    THEN BytesFromList(<<PyInt(s.val % 256)>>, h)
    ELSE BytesFromList(<<s>>, h)

bchr_py3(s, h) == BytesFromList(<<s>>, h)

\* Mutant of bord_py3: ord(s), the Python 2 body.
bord_py3_ord(s, h) == bord_py2(s, h)

bord_py3(s, h) == Return(s, h)

tobytes_py3(s, h) ==
    IF s.kind = "bytes"
    THEN Return(s, h)
    ELSE IF s.kind = "str"
         THEN encode_latin1(s, h)
         ELSE BytesFromList(<<s>>, h)

\* Mutant of tostr_py3: bs.decode("ascii"), which rejects bytes above 127.
tostr_py3_ascii(bs, h) ==
    IF bs.kind \in {"bytes", "bytearray"}
    THEN IF \E i \in 1..Len(Content(bs, h)) : Content(bs, h)[i] > 127
         THEN Raise("UnicodeDecodeError", h)
         ELSE Return(PyStr(Content(bs, h)), h)
    ELSE Raise("AttributeError", h)

tostr_py3(bs, h) == decode_latin1(bs, h)

byte_string_py3(s) == s.kind = "bytes"

----------------------------------------------------------------------------
\* The module as imported: sys.version_info[0] selects the branch

b(s, h) == IF version = 2 THEN b_py2(s, h) ELSE b_py3(s, h)

bchr(s, h) == IF version = 2 THEN bchr_py2(s, h) ELSE bchr_py3(s, h)

bord(s, h) == IF version = 2 THEN bord_py2(s, h) ELSE bord_py3(s, h)

tobytes(s, h) == IF version = 2 THEN tobytes_py2(s, h) ELSE tobytes_py3(s, h)

tostr(bs, h) == IF version = 2 THEN tostr_py2(bs, h) ELSE tostr_py3(bs, h)

byte_string(s) == IF version = 2 THEN byte_string_py2(s) ELSE byte_string_py3(s)

\* Mutant of _copy_bytes: the end bound taken as inclusive, seq[start:end+1].
_copy_bytes_inclusive(lo, hi, seq, h) ==
    IF seq.kind \in {"memoryview", "bytearray"}
    THEN LET r == getslice(seq, lo, hi + 1, h) IN bytes_of(r.val, r.heap)
    ELSE getslice(seq, lo, hi + 1, h)

_copy_bytes(lo, hi, seq, h) ==
    IF seq.kind = "memoryview"
    THEN LET r == getslice(seq, lo, hi, h) IN bytes_of(r.val, r.heap)
    ELSE IF seq.kind = "bytearray"
         THEN LET r == getslice(seq, lo, hi, h) IN bytes_of(r.val, r.heap)
         ELSE getslice(seq, lo, hi, h)

_is_immutable(data, h) ==
    IF byte_string(data)
    THEN Return(PyBool(TRUE), h)
    ELSE IF data.kind = "memoryview" /\ data.ro
         THEN Return(PyBool(TRUE), h)
         ELSE Return(PyBool(FALSE), h)

\* Mutant of _is_mutable: true for the writable buffers only.
_is_mutable_buffersOnly(data, h) ==
    Return(PyBool(\/ data.kind = "bytearray"
                  \/ (data.kind = "memoryview" /\ ~data.ro)), h)

_is_mutable(data, h) == Return(PyBool(~ _is_immutable(data, h).val.truth), h)

----------------------------------------------------------------------------
\* The inputs drawn

ByteVals == {16, 255}

CodePoints == {0, 65, 255, 256, 8364}

IntVals == -2 .. 257

Indices == -(MaxLen + 1) .. (MaxLen + 1)

SeqsUpTo(S, n) == UNION {[1..k -> S] : k \in 0..n}

Storage(m, d) == [mut |-> m, data |-> d]

IntInputs == {[heap |-> <<>>, arg |-> PyInt(n)] : n \in IntVals}

TextInputs ==
    {[heap |-> <<>>, arg |-> PyStr(t)] : t \in SeqsUpTo(CodePoints, MaxTextLen)}

BytesInputs ==
    {[heap |-> <<Storage(FALSE, d)>>, arg |-> Buf("bytes", 1)] :
        d \in SeqsUpTo(ByteVals, MaxLen)}

ByteArrayInputs ==
    {[heap |-> <<Storage(TRUE, d)>>, arg |-> Buf("bytearray", 1)] :
        d \in SeqsUpTo(ByteVals, MaxLen)}

\* memoryview(x) and memoryview(x)[1:] for x a byte string or a bytearray. A
\* view of a byte string is read-only; a view of a bytearray is writable, or
\* read-only after toreadonly() (Python 3 only).
ViewInputs(ver) ==
    {[heap |-> <<Storage(t[2], t[1])>>,
      arg |-> MemoryView(1, t[4], Len(t[1]) - t[4], t[3])] :
        t \in {u \in SeqsUpTo(ByteVals, MaxLen) \X BOOLEAN \X BOOLEAN \X {0, 1} :
                 /\ u[4] <= Len(u[1])
                 /\ ~u[2] => u[3]
                 /\ (u[2] /\ u[3]) => ver = 3}}

\* Lists of what indexing a byte string yields: integers, or one-character
\* byte strings.
IntListInputs ==
    {[heap |-> <<>>, arg |-> PyList([i \in 1..Len(d) |-> PyInt(d[i])])] :
        d \in SeqsUpTo(ByteVals, MaxLen)}

CharListInputs ==
    {[heap |-> [i \in 1..Len(d) |-> Storage(FALSE, <<d[i]>>)],
      arg |-> PyList([i \in 1..Len(d) |-> Buf("bytes", i)])] :
        d \in SeqsUpTo(ByteVals, MaxLen)}

----------------------------------------------------------------------------
\* State machine: one call of a helper on the drawn input, and after a
\* _copy_bytes call the caller's mutations of the source and of a writable
\* copy of the result.

NoResult == [exc |-> "none", val |-> PyNone]

Draw(inp) ==
    /\ heap = inp.heap
    /\ arg = inp.arg

Init ==
    /\ version \in {2, 3}
    /\ \/ \E inp \in IntInputs : Draw(inp)
       \/ \E inp \in TextInputs : Draw(inp)
       \/ \E inp \in BytesInputs : Draw(inp)
       \/ \E inp \in ByteArrayInputs : Draw(inp)
       \/ \E inp \in ViewInputs(version) : Draw(inp)
       \/ \E inp \in IntListInputs : Draw(inp)
       \/ \E inp \in CharListInputs : Draw(inp)
    /\ start = 0
    /\ end = 0
    /\ op = "idle"
    /\ ret = NoResult
    /\ w = PyNone

\* The call named name ended with outcome r.
Called(name, r) ==
    /\ op = "idle"
    /\ op' = name
    /\ ret' = [exc |-> r.exc, val |-> r.val]
    /\ heap' = r.heap
    /\ UNCHANGED <<version, arg, w>>

Call_b == Called("b", b(arg, heap)) /\ UNCHANGED <<start, end>>

Call_bchr == Called("bchr", bchr(arg, heap)) /\ UNCHANGED <<start, end>>

Call_bord == Called("bord", bord(arg, heap)) /\ UNCHANGED <<start, end>>

Call_tobytes == Called("tobytes", tobytes(arg, heap)) /\ UNCHANGED <<start, end>>

Call_tostr == Called("tostr", tostr(arg, heap)) /\ UNCHANGED <<start, end>>

Call_is_immutable ==
    Called("_is_immutable", _is_immutable(arg, heap)) /\ UNCHANGED <<start, end>>

Call_is_mutable ==
    Called("_is_mutable", _is_mutable(arg, heap)) /\ UNCHANGED <<start, end>>

\* _copy_bytes(lo, hi, arg) on a byte string, bytearray or memoryview.
Call_copy_bytes ==
    /\ IsBuffer(arg)
    /\ \E lo \in Indices, hi \in Indices :
        /\ Called("_copy_bytes", _copy_bytes(lo, hi, arg, heap))
        /\ start' = lo
        /\ end' = hi

\* The holder of the source's storage stores x at position i of it.
SetItemSource ==
    /\ op = "_copy_bytes"
    /\ heap[arg.ref].mut
    /\ \E i \in 1..Len(heap[arg.ref].data), x \in ByteVals :
        heap' = [heap EXCEPT ![arg.ref].data[i] = x]
    /\ UNCHANGED <<version, arg, start, end, op, ret, w>>

\* arg.append(x) on a bytearray source.
AppendSource ==
    /\ op = "_copy_bytes"
    /\ arg.kind = "bytearray"
    /\ Len(heap[arg.ref].data) < MaxLen
    /\ \E x \in ByteVals :
        heap' = [heap EXCEPT ![arg.ref].data = Append(@, x)]
    /\ UNCHANGED <<version, arg, start, end, op, ret, w>>

\* w = bytearray(c), a writable copy of the result c.
MakeWritableCopy ==
    /\ op = "_copy_bytes"
    /\ ret.exc = "none"
    /\ w.kind = "None"
    /\ LET r == NewByteArray(Content(ret.val, heap), heap)
       IN  /\ w' = r.val
           /\ heap' = r.heap
    /\ UNCHANGED <<version, arg, start, end, op, ret>>

\* w[i] = x on the writable copy.
SetItemCopy ==
    /\ w.kind = "bytearray"
    /\ \E i \in 1..Len(heap[w.ref].data), x \in ByteVals :
        heap' = [heap EXCEPT ![w.ref].data[i] = x]
    /\ UNCHANGED <<version, arg, start, end, op, ret, w>>

Next ==
    \/ Call_b
    \/ Call_bchr
    \/ Call_bord
    \/ Call_tobytes
    \/ Call_tostr
    \/ Call_is_immutable
    \/ Call_is_mutable
    \/ Call_copy_bytes
    \/ SetItemSource
    \/ AppendSource
    \/ MakeWritableCopy
    \/ SetItemCopy

Spec == Init /\ [][Next]_vars

----------------------------------------------------------------------------
\* Properties of _copy_bytes

\* The length of the source buffer.
SourceLen == Len(Content(arg, heap))

\* Elements lo .. min(hi, n)-1 of data, counted from 0.
ClampedRange(data, lo, hi) ==
    LET m == IF hi < Len(data) THEN hi ELSE Len(data)
    IN  IF lo < m THEN SubSeq(data, lo + 1, m) ELSE <<>>

\* A step that is the _copy_bytes call.
CopyStep == op = "idle" /\ op' = "_copy_bytes"

\* C1: after c = _copy_bytes(start, end, container), for a byte string, a
\* bytearray and a memoryview alike, no later step changes the bytes of c,
\* whether it mutates the source or a writable copy of c, and no mutation of
\* the writable copy changes the bytes of the source.
C1_NonAliasing ==
    [][(op = "_copy_bytes" /\ op' = "_copy_bytes" /\ ret.exc = "none") =>
          /\ ret' = ret
          /\ Content(ret.val, heap') = Content(ret.val, heap)
          /\ (w.kind = "bytearray" /\ heap'[w.ref] # heap[w.ref]) =>
                Content(arg, heap') = Content(arg, heap)]_vars

\* The copy of the range 1..3 of a three-byte bytearray, after the source was
\* changed inside the copied range and a writable copy of the result was
\* changed too.
C1_Witness ==
    /\ op = "_copy_bytes"
    /\ arg.kind = "bytearray"
    /\ start = 1
    /\ end = 3
    /\ SourceLen = 3
    /\ Len(Content(ret.val, heap)) = 2
    /\ Content(ret.val, heap) # SubSeq(Content(arg, heap), 2, 3)
    /\ w.kind = "bytearray"
    /\ Content(w, heap) # Content(ret.val, heap)

\* C2: for bounds 0 <= start <= end the call returns, without an exception,
\* an immutable byte string holding exactly the elements start ..
\* min(end, n)-1 of the container, whichever of the three kinds it is.
C2_ClampedRange ==
    [][(CopyStep /\ 0 <= start' /\ start' <= end') =>
          /\ ret'.exc = "none"
          /\ ret'.val.kind = "bytes"
          /\ ~heap'[ret'.val.ref].mut
          /\ Content(ret'.val, heap') = ClampedRange(Content(arg, heap), start', end')]_vars

\* _copy_bytes(2, 4, view of three bytes) returned the last byte alone.
C2_Witness ==
    /\ op = "_copy_bytes"
    /\ arg.kind = "memoryview"
    /\ start = 2
    /\ end = 4
    /\ SourceLen = 3
    /\ ret.exc = "none"
    /\ Len(Content(ret.val, heap)) = 1

\* C3 as stated: the result is empty whenever a bound is negative or
\* start > end.
C3_EmptyOnNegativeOrReordered ==
    [][(CopyStep /\ (start' < 0 \/ end' < 0 \/ start' > end')) =>
          Content(ret'.val, heap') = <<>>]_vars

\* A bound as the slice reads it: a negative bound counts from the end (not
\* below 0), a bound past the end is the end.
FromEnd(bound, n) ==
    LET p == IF bound < 0 THEN bound + n ELSE bound
    IN  IF p < 0 THEN 0 ELSE IF p > n THEN n ELSE p

\* C3 amended: the result is empty exactly when start >= end once each
\* negative bound is counted from the end of the container and each bound is
\* clamped to its length; in particular whenever 0 <= end < start.
C3_EmptyOnReordered ==
    [][CopyStep =>
          /\ (Content(ret'.val, heap') = <<>>) <=>
                (FromEnd(start', SourceLen) >= FromEnd(end', SourceLen))
          /\ (0 <= end' /\ end' < start') => Content(ret'.val, heap') = <<>>]_vars

\* _copy_bytes(-1, 1, three bytes): the start bound, counted from the end, is
\* past the end bound, and the result is empty.
C3_Witness ==
    /\ op = "_copy_bytes"
    /\ start = -1
    /\ end = 1
    /\ SourceLen = 3
    /\ ret.exc = "none"
    /\ Content(ret.val, heap) = <<>>

----------------------------------------------------------------------------
\* Properties of the conversions

\* The single-byte forms of the elements of a bytearray or a list, in order.
RECURSIVE ElementBytes(_, _, _)
ElementBytes(s, i, h) ==
    IF s.kind = "bytearray"
    THEN Content(s, h)
    ELSE IF i > Len(s.items)
         THEN <<>>
         ELSE (IF s.items[i].kind = "int"
               THEN <<s.items[i].val>>
               ELSE Content(s.items[i], h)) \o ElementBytes(s, i + 1, h)

\* C4 as stated, on the Python 3 branch: tobytes of a bytearray or of a list
\* of byte-like elements returns the byte string of the elements' single-byte
\* forms in order.
C4_SequenceToBytes ==
    (version = 3 /\ op = "tobytes" /\ arg.kind \in {"bytearray", "list"}) =>
        /\ ret.exc = "none"
        /\ ret.val.kind = "bytes"
        /\ Content(ret.val, heap) = ElementBytes(arg, 1, heap)

\* C5 as stated: _is_immutable is true exactly for a byte string and for a
\* read-only view whose storage is immutable, and _is_mutable is its negation.
C5_ImmutableIffImmutableStorage ==
    LET immutable == \/ arg.kind = "bytes"
                     \/ (arg.kind = "memoryview" /\ arg.ro /\ ~heap[arg.ref].mut)
    IN  /\ op = "_is_immutable" => (ret.val.truth <=> immutable)
        /\ op = "_is_mutable" => (ret.val.truth <=> ~immutable)

\* C6 as stated, on the Python 3 branch: for text both _is_immutable and
\* _is_mutable return false.
C6_TextIsNeither ==
    (version = 3 /\ op \in {"_is_immutable", "_is_mutable"} /\ arg.kind = "str") =>
        (ret.exc = "none" /\ ret.val.truth = FALSE)

\* C6 amended: for text _is_immutable returns false and _is_mutable, its
\* negation, returns true.
C6_TextIsNotImmutable ==
    arg.kind = "str" =>
        /\ op = "_is_immutable" => (ret.exc = "none" /\ ret.val.truth = FALSE)
        /\ op = "_is_mutable" => (ret.exc = "none" /\ ret.val.truth = TRUE)

\* _is_mutable of a non-empty text returned true.
C6_Witness ==
    /\ op = "_is_mutable"
    /\ arg.kind = "str"
    /\ Len(arg.cps) > 0
    /\ ret.val.truth = TRUE

\* C7: under Python 3, tobytes of a text with all code points in 0..255 is a
\* byte string of the same length whose i-th byte is the i-th code point, and
\* tostr of it is the text again; tostr of a byte string or bytearray, and of
\* each one-byte string bchr makes, returns text and raises nothing.
C7_TextRoundTrip ==
    version = 3 =>
        /\ (op = "tobytes" /\ arg.kind = "str"
                /\ \A i \in 1..Len(arg.cps) : arg.cps[i] <= 255) =>
              /\ ret.exc = "none"
              /\ ret.val.kind = "bytes"
              /\ Len(Content(ret.val, heap)) = Len(arg.cps)
              /\ \A i \in 1..Len(arg.cps) : Content(ret.val, heap)[i] = arg.cps[i]
              /\ tostr(ret.val, heap).exc = "none"
              /\ tostr(ret.val, heap).val = arg
        /\ (op = "tostr" /\ arg.kind \in {"bytes", "bytearray"}) =>
              /\ ret.exc = "none"
              /\ ret.val.kind = "str"
              /\ Len(ret.val.cps) = Len(Content(arg, heap))
              /\ \A i \in 1..Len(ret.val.cps) : ret.val.cps[i] = Content(arg, heap)[i]
        /\ (op = "bchr" /\ ret.exc = "none") =>
              /\ tostr(ret.val, heap).exc = "none"
              /\ tostr(ret.val, heap).val = PyStr(<<arg.val>>)

\* tobytes of the two-character text with code points 255 and 65 returned.
C7_Witness ==
    /\ version = 3
    /\ op = "tobytes"
    /\ arg.kind = "str"
    /\ arg.cps = <<255, 65>>
    /\ ret.exc = "none"
    /\ Content(ret.val, heap) = <<255, 65>>

\* C8: bchr(c) returns a one-byte immutable byte string holding c when
\* 0 <= c <= 255, and for every other integer raises ValueError, returning
\* nothing and allocating nothing.
C8_bchrRange ==
    (op = "bchr" /\ arg.kind = "int") =>
        IF 0 <= arg.val /\ arg.val <= 255
        THEN /\ ret.exc = "none"
             /\ ret.val.kind = "bytes"
             /\ ~heap[ret.val.ref].mut
             /\ Content(ret.val, heap) = <<arg.val>>
        ELSE /\ ret.exc = "ValueError"
             /\ ret.val = PyNone
             /\ heap = <<>>

\* bchr(256) raised ValueError.
C8_Witness ==
    /\ op = "bchr"
    /\ arg.kind = "int"
    /\ arg.val = 256
    /\ ret.exc = "ValueError"

\* C9: tobytes of a text, and b of a text under Python 3, raise
\* UnicodeEncodeError exactly when some code point of the text, at whatever
\* position, exceeds 255; they raise nothing else, and a failing call returns
\* nothing and allocates no buffer.
C9_EncodingError ==
    ((op = "tobytes" \/ (op = "b" /\ version = 3)) /\ arg.kind = "str") =>
        /\ ret.exc \in {"none", "UnicodeEncodeError"}
        /\ (ret.exc = "UnicodeEncodeError") <=>
              (\E i \in 1..Len(arg.cps) : arg.cps[i] > 255)
        /\ ret.exc # "none" => (ret.val = PyNone /\ heap = <<>>)
        /\ ret.exc = "none" => ret.val.kind = "bytes"

\* b of a text whose second code point is 256 raised UnicodeEncodeError.
C9_Witness ==
    /\ version = 3
    /\ op = "b"
    /\ arg.kind = "str"
    /\ arg.cps = <<65, 256>>
    /\ ret.exc = "UnicodeEncodeError"

\* The integers 0..255 and the one-element byte strings: the two shapes
\* indexing a byte string yields.
IsByteInt(v) == v.kind = "int" /\ 0 <= v.val /\ v.val <= 255

IsOneByte(v, h) == v.kind = "bytes" /\ Len(Content(v, h)) = 1

\* C10 as stated, on the Python 3 branch: bord returns the integer c both for
\* the integer c and for a one-element byte string holding c.
C10_bordBothShapes ==
    /\ (version = 3 /\ op = "bord" /\ IsByteInt(arg)) =>
          ret = [exc |-> "none", val |-> arg]
    /\ (version = 3 /\ op = "bord" /\ IsOneByte(arg, heap)) =>
          ret = [exc |-> "none", val |-> PyInt(Content(arg, heap)[1])]

\* C10 amended: bord returns the integer c in 0..255 for the shape that
\* indexing a byte string yields under the running Python: the integer c
\* under Python 3, a one-character byte string holding c under Python 2, so
\* bord(bchr(c)[0]) = c under both. The other shape is not converted:
\* Python 3 returns a one-element byte string unchanged, Python 2 raises
\* TypeError for an integer.
C10_bordIndexShape ==
    /\ (op = "bord" /\ IsByteInt(arg)) =>
          IF version = 3
          THEN ret = [exc |-> "none", val |-> arg]
          ELSE ret = [exc |-> "TypeError", val |-> PyNone]
    /\ (op = "bord" /\ IsOneByte(arg, heap)) =>
          IF version = 3
          THEN ret = [exc |-> "none", val |-> arg]
          ELSE ret = [exc |-> "none", val |-> PyInt(Content(arg, heap)[1])]
    /\ (op = "bchr" /\ ret.exc = "none") =>
          LET e == getitem(ret.val, 0, heap, version)
              r == bord(e.val, e.heap)
          IN  r.exc = "none" /\ r.val = arg /\ IsByteInt(r.val)

\* bord(255) under Python 3 returned 255.
C10_Witness ==
    /\ version = 3
    /\ op = "bord"
    /\ arg.kind = "int"
    /\ arg.val = 255
    /\ ret.exc = "none"
    /\ ret.val = PyInt(255)

====
